---- MODULE Spec2Model ----
(***************************************************************************)
(* Model of prefect_snowflake/credentials.py.                              *)
(*                                                                         *)
(*  - SnowflakeCredentials: construction of the block from a raw mapping   *)
(*    of keyword arguments.  The three pre root validators run on the raw  *)
(*    mapping in definition order, the first one that raises ends the      *)
(*    construction; only then are the declared fields checked and the      *)
(*    defaults filled in.  Specification: Spec.                            *)
(*  - resolve_pem_certificate: passphrase normalisation, the regular       *)
(*    expression that takes the key apart, the split of the body on        *)
(*    whitespace and the reassembly handed to the key loader.              *)
(*    Specification: SpecPem.                                              *)
(*                                                                         *)
(* Python values are records [t |-> type tag, v |-> content].  Text is a   *)
(* sequence of code points, bytes a sequence of byte values.               *)
(***************************************************************************)
EXTENDS Integers, Sequences, FiniteSets, TLC

VARIABLES values, result, cpc, private_key, password, loaded, op

vars == <<values, result, cpc, private_key, password, loaded, op>>

(***************************************************************************)
(* Python values of the keyword arguments                                  *)
(***************************************************************************)
\* the key is not in the mapping
Absent == [t |-> "absent", v |-> ""]
\* the key is given the value None
NoneV == [t |-> "none", v |-> ""]
\* a str
Str(s) == [t |-> "str", v |-> s]
\* a non-empty list: truthy, and no declared field accepts it
BadList == [t |-> "list", v |-> "[1]"]
\* the bool True
BoolTrue == [t |-> "bool", v |-> "True"]

\* Python truth value: None, "", [] and False are falsy
Truthy(x) ==
    CASE x.t = "str" -> x.v # ""
      [] x.t = "list" -> x.v # ""
      [] x.t = "bool" -> x.v = "True"
      [] OTHER -> FALSE

\* values.get(k): None when the key is missing
Get(vals, k) == IF vals[k] = Absent THEN NoneV ELSE vals[k]

\* Literal[...] of the authenticator field
AuthenticatorLiteral ==
    {"snowflake", "externalbrowser", "okta_endpoint", "oauth", "username_password_mfa"}

\* field default of authenticator
AuthenticatorDefault == Str("snowflake")

(***************************************************************************)
(* Input mappings that are tried                                           *)
(***************************************************************************)
RequiredStrInputs == {Absent, NoneV, Str("abc123"), BadList}
SecretInputs == {Absent, NoneV, Str(""), Str("secret1"), BadList}
KeyInputs == {Absent, Str(""), Str("pem")}
AuthenticatorInputs ==
    {Absent, NoneV, Str(""), Str("bogus")} \cup {Str(a) : a \in AuthenticatorLiteral}
EndpointInputs == {Absent, Str(""), Str("https://acme.okta.com")}
DeclaredEndpointInputs == EndpointInputs \cup {BadList}
RoleInputs == {Absent, Str("analyst")}
AutocommitInputs == {Absent, BoolTrue, BadList}

InputMappings ==
    [account : RequiredStrInputs, user : RequiredStrInputs,
     password : SecretInputs, private_key : KeyInputs,
     authenticator : AuthenticatorInputs, token : SecretInputs,
     okta_endpoint : EndpointInputs, endpoint : DeclaredEndpointInputs,
     role : RoleInputs, autocommit : AutocommitInputs]

(***************************************************************************)
(* The root validators                                                     *)
(***************************************************************************)
AuthKeysMessage == "One of the authentication keys must be provided: password, private_key, authenticator, token"
TokenMessage == "If authenticator is set to oauth, token must be provided"
OktaMessage == "If authenticator is set to okta_endpoint, okta_endpoint must be provided"

Raise(msg) == [raised |-> TRUE, msg |-> msg]
Return == [raised |-> FALSE, msg |-> ""]

auth_params == {"password", "private_key", "authenticator", "token"}

\* a slip this model is compared with: "param in values" instead of the truth value of values.get(param)
validate_auth_kwargs_presence(vals) ==
    IF ~ \E param \in auth_params : vals[param] # Absent
    THEN Raise(AuthKeysMessage)
    ELSE Return

\* a slip this model is compared with: the validator reads the mapping after the defaults are filled in
validate_auth_kwargs_post(vals) ==
    LET filled == IF vals.authenticator = Absent
                  THEN [vals EXCEPT !.authenticator = AuthenticatorDefault]
                  ELSE vals
    IN IF ~ \E param \in auth_params : Truthy(Get(filled, param))
       THEN Raise(AuthKeysMessage)
       ELSE Return

validate_auth_kwargs(vals) ==
    IF ~ \E param \in auth_params : Truthy(Get(vals, param))
    THEN Raise(AuthKeysMessage)
    ELSE Return

\* a slip this model is compared with: the token is only looked up, its truth value is not tested
validate_token_kwargs_is_none(vals) ==
    LET authenticator == Get(vals, "authenticator")
        token == Get(vals, "token")
    IN IF authenticator = Str("oauth") /\ token = NoneV
       THEN Raise(TokenMessage)
       ELSE Return

validate_token_kwargs(vals) ==
    LET authenticator == Get(vals, "authenticator")
        token == Get(vals, "token")
    IN IF authenticator = Str("oauth") /\ ~ Truthy(token)
       THEN Raise(TokenMessage)
       ELSE Return

\* a slip this model is compared with: the endpoint is only looked up, its truth value is not tested
validate_okta_kwargs_is_none(vals) ==
    LET authenticator == Get(vals, "authenticator")
        okta_endpoint == Get(vals, "okta_endpoint")
    IN IF authenticator = Str("okta_endpoint") /\ okta_endpoint = NoneV
       THEN Raise(OktaMessage)
       ELSE Return

validate_okta_kwargs(vals) ==
    LET authenticator == Get(vals, "authenticator")
        okta_endpoint == Get(vals, "okta_endpoint")
    IN IF authenticator = Str("okta_endpoint") /\ ~ Truthy(okta_endpoint)
       THEN Raise(OktaMessage)
       ELSE Return

(***************************************************************************)
(* The declared fields                                                     *)
(***************************************************************************)
\* account: str = Field(...), user: str = Field(...)
RequiredStrError(x) ==
    CASE x.t = "absent" -> "field required"
      [] x.t = "none" -> "none is not an allowed value"
      [] x.t = "str" -> ""
      [] OTHER -> "str type expected"

\* Optional[SecretStr], Optional[SecretBytes], Optional[str]
OptionalStrError(x) ==
    CASE x.t \in {"absent", "none", "str"} -> ""
      [] OTHER -> "str type expected"

\* Literal[...] with a default
AuthenticatorError(x) ==
    CASE x.t = "absent" -> ""
      [] x.t = "none" -> "none is not an allowed value"
      [] x.t = "str" /\ x.v \in AuthenticatorLiteral -> ""
      [] OTHER -> "unexpected value"

\* Optional[bool]
OptionalBoolError(x) ==
    CASE x.t \in {"absent", "none", "bool"} -> ""
      [] OTHER -> "value could not be parsed to a boolean"

\* the declared fields; okta_endpoint is not one of them
DeclaredFields ==
    {"account", "user", "password", "private_key", "authenticator", "token",
     "endpoint", "role", "autocommit"}

FieldError(vals, f) ==
    CASE f \in {"account", "user"} -> RequiredStrError(vals[f])
      [] f \in {"password", "private_key", "token", "endpoint", "role"} ->
            OptionalStrError(vals[f])
      [] f = "authenticator" -> AuthenticatorError(vals[f])
      [] OTHER -> OptionalBoolError(vals[f])

FieldErrors(vals) ==
    {[loc |-> f, msg |-> FieldError(vals, f)] :
        f \in {g \in DeclaredFields : FieldError(vals, g) # ""}}

\* the value a declared field holds in the record
Secret(x, tag) == IF x.t = "str" THEN [t |-> tag, v |-> x.v] ELSE NoneV
Plain(x) == IF x = Absent THEN NoneV ELSE x

NoRecord == [made |-> FALSE]

MakeRecord(vals) ==
    [made |-> TRUE,
     account |-> vals.account,
     user |-> vals.user,
     password |-> Secret(vals.password, "SecretStr"),
     private_key |-> Secret(vals.private_key, "SecretBytes"),
     authenticator |-> IF vals.authenticator = Absent
                       THEN AuthenticatorDefault ELSE vals.authenticator,
     token |-> Secret(vals.token, "SecretStr"),
     endpoint |-> Plain(vals.endpoint),
     role |-> Plain(vals.role),
     autocommit |-> Plain(vals.autocommit)]

(***************************************************************************)
(* Construction of a SnowflakeCredentials from the keyword arguments       *)
(***************************************************************************)
NoResult == [status |-> "none", msg |-> "", errors |-> {}, record |-> NoRecord]
RootFailure(msg) == [status |-> "error", msg |-> msg, errors |-> {}, record |-> NoRecord]
FieldFailure(errs) == [status |-> "error", msg |-> "", errors |-> errs, record |-> NoRecord]
Success(rec) == [status |-> "ok", msg |-> "", errors |-> {}, record |-> rec]

\* a slip this model is compared with: root validators without pre=True run after the field checks
Construct_fields_first(vals) ==
    LET errs == FieldErrors(vals)
        r1 == validate_auth_kwargs(vals)
        r2 == validate_token_kwargs(vals)
        r3 == validate_okta_kwargs(vals)
    IN IF errs # {} THEN FieldFailure(errs)
       ELSE IF r1.raised THEN RootFailure(r1.msg)
       ELSE IF r2.raised THEN RootFailure(r2.msg)
       ELSE IF r3.raised THEN RootFailure(r3.msg)
       ELSE Success(MakeRecord(vals))

Construct(vals) ==
    LET r1 == validate_auth_kwargs(vals)
        r2 == validate_token_kwargs(vals)
        r3 == validate_okta_kwargs(vals)
        errs == FieldErrors(vals)
    IN IF r1.raised THEN RootFailure(r1.msg)
       ELSE IF r2.raised THEN RootFailure(r2.msg)
       ELSE IF r3.raised THEN RootFailure(r3.msg)
       ELSE IF errs # {} THEN FieldFailure(errs)
       ELSE Success(MakeRecord(vals))

\* the mapping with no key at all
EmptyMapping ==
    [k \in DeclaredFields \cup {"okta_endpoint"} |-> Absent]

(***************************************************************************)
(* resolve_pem_certificate: characters                                     *)
(***************************************************************************)
\* "-", the character the pattern is built on
Dash == 45
\* "\n", the separator of the join
LF == 10

\* what \s matches in a str pattern, and str.isspace accepts
UnicodeWhitespace ==
    {9, 10, 11, 12, 13, 28, 29, 30, 31, 32, 133, 160, 5760, 8232, 8233, 8239, 8287, 12288}
        \cup (8192 .. 8202)

\* what bytes.isspace accepts
AsciiWhitespace == {9, 10, 11, 12, 13, 32}

\* str.encode(): UTF-8, code points below 65536
EncodeChar(c) ==
    IF c < 128 THEN <<c>>
    ELSE IF c < 2048 THEN <<192 + (c \div 64), 128 + (c % 64)>>
    ELSE <<224 + (c \div 4096), 128 + ((c \div 64) % 64), 128 + (c % 64)>>

RECURSIVE Encode(_)
Encode(text) ==
    IF text = <<>> THEN <<>> ELSE EncodeChar(Head(text)) \o Encode(Tail(text))

\* bytes.decode(): UTF-8, one and two byte sequences; anything else raises
RECURSIVE DecodeFrom(_, _, _)
DecodeFrom(bs, i, out) ==
    IF i > Len(bs) THEN [raised |-> FALSE, text |-> out]
    ELSE IF bs[i] < 128 THEN DecodeFrom(bs, i + 1, Append(out, bs[i]))
    ELSE IF bs[i] \in 194 .. 223 /\ i < Len(bs) /\ bs[i + 1] \in 128 .. 191
         THEN DecodeFrom(bs, i + 2, Append(out, (bs[i] - 192) * 64 + (bs[i + 1] - 128)))
    ELSE [raised |-> TRUE, text |-> <<>>]

Decode(bs) == DecodeFrom(bs, 1, <<>>)

(***************************************************************************)
(* The pattern (-+[^-]+-+)([^-]+)(-+[^-]+-+)                               *)
(***************************************************************************)
\* length of the greedy run of dashes (dash = TRUE) or of other characters
\* that starts at position i
RECURSIVE Run(_, _, _)
Run(s, i, dash) ==
    IF i > Len(s) \/ ((s[i] = Dash) # dash) THEN 0 ELSE 1 + Run(s, i + 1, dash)

NoMatch == [matched |-> FALSE, g1 |-> <<>>, g2 |-> <<>>, g3 |-> <<>>]

\* the pattern tried at position start: every + takes its whole run, and
\* giving a character back never helps, the next item is of the other class
MatchAt(s, start) ==
    LET d1 == Run(s, start, TRUE)
        n1 == Run(s, start + d1, FALSE)
        d2 == Run(s, start + d1 + n1, TRUE)
        b == start + d1 + n1 + d2
        n2 == Run(s, b, FALSE)
        d3 == Run(s, b + n2, TRUE)
        n3 == Run(s, b + n2 + d3, FALSE)
        d4 == Run(s, b + n2 + d3 + n3, TRUE)
    IN IF d1 > 0 /\ n1 > 0 /\ d2 > 0 /\ n2 > 0 /\ d3 > 0 /\ n3 > 0 /\ d4 > 0
       THEN [matched |-> TRUE,
             g1 |-> SubSeq(s, start, b - 1),
             g2 |-> SubSeq(s, b, b + n2 - 1),
             g3 |-> SubSeq(s, b + n2, b + n2 + d3 + n3 + d4 - 1)]
       ELSE NoMatch

\* a slip this model is compared with: re.search, the pattern is tried at every position
re_search(s) ==
    LET hits == {i \in 1 .. Len(s) : MatchAt(s, i).matched}
    IN IF hits = {} THEN NoMatch
       ELSE MatchAt(s, CHOOSE i \in hits : \A j \in hits : i <= j)

\* re.match: the pattern is tried at the start of the text only
re_match(s) == MatchAt(s, 1)

\* re.split(r"\s+", body): the pieces between the whitespace runs, the empty
\* ones at the ends included
RECURSIVE SplitFrom(_, _, _, _)
SplitFrom(s, i, piece, pieces) ==
    IF i > Len(s) THEN Append(pieces, piece)
    ELSE IF s[i] \in UnicodeWhitespace
         THEN IF i < Len(s) /\ s[i + 1] \in UnicodeWhitespace
              THEN SplitFrom(s, i + 1, piece, pieces)
              ELSE SplitFrom(s, i + 1, <<>>, Append(pieces, piece))
    ELSE SplitFrom(s, i + 1, Append(piece, s[i]), pieces)

\* a slip this model is compared with: body.split("\n"), only the line breaks separate the pieces
RECURSIVE SplitLinesFrom(_, _, _, _)
SplitLinesFrom(s, i, piece, pieces) ==
    IF i > Len(s) THEN Append(pieces, piece)
    ELSE IF s[i] = LF
         THEN SplitLinesFrom(s, i + 1, <<>>, Append(pieces, piece))
    ELSE SplitLinesFrom(s, i + 1, Append(piece, s[i]), pieces)

re_split_lines(s) == SplitLinesFrom(s, 1, <<>>, <<>>)

re_split(s) == SplitFrom(s, 1, <<>>, <<>>)

\* a slip this model is compared with: the empty pieces are yielded too
disassemble_cert_keep_empty(cert) ==
    LET cert_parts == re_match(cert)
    IN IF ~ cert_parts.matched THEN [raised |-> TRUE, parts |-> <<>>]
       ELSE [raised |-> FALSE,
             parts |-> <<cert_parts.g1>> \o re_split(cert_parts.g2) \o <<cert_parts.g3>>]

\* _disassemble_cert: header, the non-empty pieces of the body, footer;
\* subscripting the failed match raises
disassemble_cert(cert) ==
    LET cert_parts == re_match(cert)
    IN IF ~ cert_parts.matched THEN [raised |-> TRUE, parts |-> <<>>]
       ELSE [raised |-> FALSE,
             parts |-> <<cert_parts.g1>>
                         \o SelectSeq(re_split(cert_parts.g2), LAMBDA p : p # <<>>)
                         \o <<cert_parts.g3>>]

\* sep.join(parts)
RECURSIVE Join(_, _)
Join(parts, sep) ==
    IF parts = <<>> THEN <<>>
    ELSE IF Len(parts) = 1 THEN Head(parts)
    ELSE Head(parts) \o sep \o Join(Tail(parts), sep)

(***************************************************************************)
(* resolve_pem_certificate: the passphrase                                 *)
(***************************************************************************)
NoKey == [t |-> "none", v |-> <<>>]
Text(s) == [t |-> "str", v |-> s]
Bytes(b) == [t |-> "bytes", v |-> b]

\* bytes.isspace(): not empty and every byte is ASCII whitespace
IsSpace(b) == Len(b) > 0 /\ \A i \in 1 .. Len(b) : b[i] \in AsciiWhitespace

\* a slip this model is compared with: the whitespace test is left out
normalize_password_no_isspace(pw) ==
    LET encoded == IF pw.t = "str" /\ Len(pw.v) > 0 THEN Bytes(Encode(pw.v)) ELSE pw
    IN IF encoded.t # "bytes" \/ Len(encoded.v) = 0
       THEN NoKey
       ELSE encoded

normalize_password(pw) ==
    LET encoded == IF pw.t = "str" /\ Len(pw.v) > 0 THEN Bytes(Encode(pw.v)) ELSE pw
    IN IF encoded.t # "bytes" \/ Len(encoded.v) = 0 \/ IsSpace(encoded.v)
       THEN NoKey
       ELSE encoded

(***************************************************************************)
(* resolve_pem_certificate                                                 *)
(***************************************************************************)
NoLoad == [status |-> "none", data |-> <<>>, password |-> NoKey]
Raised == [status |-> "raised", data |-> <<>>, password |-> NoKey]
\* load_pem_private_key(data, password=password, ...): the bytes returned are
\* the loader's, a function of these two arguments
Loader(data, pw) == [status |-> "called", data |-> data, password |-> pw]

resolve_pem_certificate(key, pw) ==
    LET decoded == IF key.t = "bytes" THEN Decode(key.v)
                   ELSE [raised |-> FALSE, text |-> key.v]
        pass == normalize_password(pw)
        cert == disassemble_cert(decoded.text)
    IN IF decoded.raised \/ cert.raised
       THEN Raised
       ELSE Loader(Encode(Join(cert.parts, <<LF>>)), pass)

(***************************************************************************)
(* Inputs of resolve_pem_certificate                                       *)
(***************************************************************************)
MaxKeyLen == 9
MaxPassLen == 2

Strings(alphabet, n) == UNION {[1 .. k -> alphabet] : k \in 0 .. n}

\* "-", "A", " ", "\n"
KeyAlphabet == {Dash, 65, 32, LF}

\* "-A-A-A-" as text and as bytes, bytes that are not UTF-8, a text with a
\* no-break space in the body
SampleKeys ==
    {Text(<<45, 65, 45, 65, 45, 65, 45>>),
     Bytes(<<45, 65, 45, 65, 45, 65, 45>>),
     Bytes(<<45, 65, 45, 255, 45, 65, 45>>),
     Text(<<45, 65, 45, 65, 160, 65, 45, 65, 45>>),
     Bytes(<<45, 65, 45, 65, 194, 160, 65, 45, 65, 45>>),
     Text(<<65, 65>>)}

\* "p", " ", tab, no-break space
PassTexts == Strings({112, 32, 9, 160}, MaxPassLen)
\* "p", " ", "\n", 0xC2
PassBytes == Strings({112, 32, 10, 194}, MaxPassLen)
Passphrases ==
    {NoKey, [t |-> "int", v |-> <<5>>]}
        \cup {Text(s) : s \in PassTexts} \cup {Bytes(b) : b \in PassBytes}

PemIdle ==
    /\ private_key = NoKey
    /\ password = NoKey
    /\ loaded = NoLoad
    /\ op = "none"

Init ==
    /\ cpc = "idle"
    /\ values = EmptyMapping
    /\ result = NoResult
    /\ PemIdle

New ==
    /\ cpc = "idle"
    /\ \E vals \in InputMappings :
        /\ values' = vals
        /\ result' = Construct(vals)
    /\ cpc' = "done"
    /\ UNCHANGED <<private_key, password, loaded, op>>

Next == New

Spec == Init /\ [][Next]_vars

\* the call resolve_pem_certificate(key, pw)
Call(key, pw) ==
    /\ private_key' = key
    /\ password' = pw
    /\ loaded' = resolve_pem_certificate(key, pw)
    /\ op' = "resolve"
    /\ UNCHANGED <<values, result, cpc>>

\* a call of resolve_pem_certificate: any key text without a passphrase, or
\* one of the sample keys with any passphrase
Resolve ==
    /\ op = "none"
    /\ \/ \E n \in 0 .. MaxKeyLen : \E s \in [1 .. n -> KeyAlphabet] : Call(Text(s), NoKey)
       \/ \E key \in SampleKeys : \E pw \in Passphrases : Call(key, pw)

\* the body of the last key as re.match takes it: first position and length
BodyStart == Len(re_match(private_key.v).g1) + 1
BodyLen == Len(re_match(private_key.v).g2)

ReplaceAt(s, i, c) == [s EXCEPT ![i] = c]
InsertAt(s, i, c) == SubSeq(s, 1, i - 1) \o <<c>> \o SubSeq(s, i, Len(s))
DeleteAt(s, i) == SubSeq(s, 1, i - 1) \o SubSeq(s, i + 1, Len(s))

\* resolve_pem_certificate called on the last key laid out as text
CallReformatted(text) ==
    /\ private_key' = Text(text)
    /\ loaded' = resolve_pem_certificate(Text(text), password)

\* a call of resolve_pem_certificate on the last key with one whitespace run
\* of its body laid out differently: a whitespace character replaced by
\* another, one more added to a run, or one taken from a run that keeps a
\* character
ResolveReformatted ==
    /\ op \in {"resolve", "reformat"}
    /\ private_key.t = "str"
    /\ loaded.status = "called"
    /\ \E i \in BodyStart .. BodyStart + BodyLen - 1 :
        /\ private_key.v[i] \in UnicodeWhitespace
        /\ \E c \in KeyAlphabet \cap UnicodeWhitespace :
            \/ /\ c # private_key.v[i]
               /\ CallReformatted(ReplaceAt(private_key.v, i, c))
            \/ /\ Len(private_key.v) < MaxKeyLen
               /\ CallReformatted(InsertAt(private_key.v, i, c))
            \/ /\ i < BodyStart + BodyLen - 1
               /\ private_key.v[i + 1] \in UnicodeWhitespace
               /\ CallReformatted(DeleteAt(private_key.v, i))
    /\ op' = "reformat"
    /\ UNCHANGED <<values, result, cpc, password>>

NextPem == Resolve \/ ResolveReformatted

SpecPem == Init /\ [][NextPem]_vars

(***************************************************************************)
(* Properties of the construction                                          *)
(***************************************************************************)
Done == cpc = "done"

\* a keyword argument that is absent or empty
Unset(x) == x.t \in {"absent", "none"} \/ x = Str("")

OtherAuthSet ==
    \/ ~ Unset(values.password)
    \/ ~ Unset(values.private_key)
    \/ ~ Unset(values.token)

ExplicitAuthenticator == ~ Unset(values.authenticator)

NonDefaultAuthenticator ==
    ExplicitAuthenticator /\ values.authenticator # Str("snowflake")

PassesAuthKeysRule == result # RootFailure(AuthKeysMessage)

\* every supplied value has the type of its field
WellTyped ==
    /\ values.account.t = "str"
    /\ values.user.t = "str"
    /\ \A f \in {"password", "private_key", "token", "endpoint", "role"} :
          values[f].t \in {"absent", "none", "str"}
    /\ values.authenticator.t = "absent"
         \/ (values.authenticator.t = "str" /\ values.authenticator.v \in AuthenticatorLiteral)
    /\ values.autocommit.t \in {"absent", "none", "bool"}

\* C1 as stated: a construction in which none of password, private_key,
\* non-default authenticator and token is set fails and produces no record.
\* An authenticator given explicitly as "snowflake" refutes it.
C1_NoneSetFails ==
    Done /\ ~ OtherAuthSet /\ ~ NonDefaultAuthenticator
        => result.status = "error" /\ result.record = NoRecord

\* C1 as amended: a construction in which none of password, private_key,
\* authenticator and token is given a non-empty value fails with the
\* authentication keys message and produces no record.
C1_NoAuthKeyFails ==
    Done /\ ~ OtherAuthSet /\ ~ ExplicitAuthenticator
        => result = RootFailure(AuthKeysMessage)

C1_Witness ==
    /\ Done
    /\ \A k \in auth_params : values[k] = Absent
    /\ values.account = Str("abc123")
    /\ values.user = Str("abc123")
    /\ result = RootFailure(AuthKeysMessage)

\* C2 as stated: an omitted authenticator becomes "snowflake" in the record,
\* and every construction that passes the authentication keys rule has an
\* explicit authenticator other than "snowflake" or a non-empty password,
\* private_key or token.
C2_DefaultNeverSatisfies ==
    Done =>
        /\ (values.authenticator = Absent /\ result.status = "ok"
              => result.record.authenticator = Str("snowflake"))
        /\ (PassesAuthKeysRule => NonDefaultAuthenticator \/ OtherAuthSet)

\* C2 as amended: an omitted authenticator becomes "snowflake" in the record
\* and the omitted default never satisfies the authentication keys rule:
\* every construction that passes the rule has a non-empty password,
\* private_key or token, or an authenticator given explicitly with a
\* non-empty value, "snowflake" included.
C2_OmittedDefaultNeverSatisfies ==
    Done =>
        /\ (values.authenticator = Absent /\ result.status = "ok"
              => result.record.authenticator = Str("snowflake"))
        /\ (values.authenticator = Absent /\ PassesAuthKeysRule => OtherAuthSet)
        /\ (PassesAuthKeysRule => ExplicitAuthenticator \/ OtherAuthSet)

C2_Witness ==
    /\ Done
    /\ values.authenticator = Absent
    /\ values.password = Str("secret1")
    /\ result.status = "ok"
    /\ result.record.authenticator = Str("snowflake")

\* C3 as stated: with authenticator "oauth", an unset token fails the
\* construction, and a set token with account and user given succeeds.
C3_OauthToken ==
    Done /\ values.authenticator = Str("oauth") =>
        /\ (Unset(values.token) => result.status = "error")
        /\ (~ Unset(values.token) /\ values.account.t = "str" /\ values.user.t = "str"
              => result.status = "ok")

\* C3 as amended: with authenticator "oauth", an unset token fails the
\* construction with the token message; a set token succeeds when account and
\* user are given as strings and every supplied value has its field's type.
C3_OauthTokenWellTyped ==
    Done /\ values.authenticator = Str("oauth") =>
        /\ (Unset(values.token) => result = RootFailure(TokenMessage))
        /\ (~ Unset(values.token) /\ WellTyped
              => /\ result.status = "ok"
                 /\ result.record.token = [t |-> "SecretStr", v |-> values.token.v])

C3_Witness ==
    /\ Done
    /\ values.authenticator = Str("oauth")
    /\ values.token = Str("secret1")
    /\ values.password = Absent
    /\ result.status = "ok"

\* C4 as stated: with authenticator "okta_endpoint", an unset okta_endpoint
\* fails the construction, and a set one with account and user given succeeds.
C4_OktaEndpoint ==
    Done /\ values.authenticator = Str("okta_endpoint") =>
        /\ (Unset(values.okta_endpoint) => result.status = "error")
        /\ (~ Unset(values.okta_endpoint) /\ values.account.t = "str" /\ values.user.t = "str"
              => result.status = "ok")

\* C4 as amended: with authenticator "okta_endpoint", an unset okta_endpoint
\* keyword fails the construction with the okta message; a set one succeeds
\* when account and user are given as strings and every supplied value has
\* its field's type.
C4_OktaEndpointWellTyped ==
    Done /\ values.authenticator = Str("okta_endpoint") =>
        /\ (Unset(values.okta_endpoint) => result = RootFailure(OktaMessage))
        /\ (~ Unset(values.okta_endpoint) /\ WellTyped => result.status = "ok")

C4_Witness ==
    /\ Done
    /\ values.authenticator = Str("okta_endpoint")
    /\ values.okta_endpoint = Str("https://acme.okta.com")
    /\ values.endpoint = Absent
    /\ result.status = "ok"

AuthKeysRuleViolated == ~ OtherAuthSet /\ ~ ExplicitAuthenticator
TokenRuleViolated == values.authenticator = Str("oauth") /\ Unset(values.token)
OktaRuleViolated ==
    values.authenticator = Str("okta_endpoint") /\ Unset(values.okta_endpoint)

\* C8: the three rules are checked on the raw mapping before any field: a
\* mapping that violates a rule fails with that rule's message and without a
\* record, whatever account, user and the other values are; field errors are
\* reported only when the three rules hold.
C8_RulesBeforeFields ==
    Done =>
        /\ (AuthKeysRuleViolated => result = RootFailure(AuthKeysMessage))
        /\ (TokenRuleViolated => result = RootFailure(TokenMessage))
        /\ (OktaRuleViolated => result = RootFailure(OktaMessage))
        /\ (result.errors # {} =>
              ~ AuthKeysRuleViolated /\ ~ TokenRuleViolated /\ ~ OktaRuleViolated)
        /\ (result.status = "error" => result.record = NoRecord)

C8_Witness ==
    /\ Done
    /\ TokenRuleViolated
    /\ values.account = Absent
    /\ values.user = BadList
    /\ values.autocommit = BadList
    /\ result = RootFailure(TokenMessage)

\* C10: the Okta endpoint the rule checks is the field the record declares:
\* a record built with authenticator "okta_endpoint" holds a non-empty
\* endpoint in its declared field, and a non-empty value for the declared
\* field satisfies the okta rule.
C10_OktaFieldIsChecked ==
    Done =>
        /\ (result.status = "ok" /\ result.record.authenticator = Str("okta_endpoint")
              => result.record.endpoint.t = "str" /\ result.record.endpoint.v # "")
        /\ (values.authenticator = Str("okta_endpoint") /\ ~ Unset(values.endpoint)
              => result # RootFailure(OktaMessage))

(***************************************************************************)
(* Properties of resolve_pem_certificate                                   *)
(***************************************************************************)
Called == op # "none" /\ loaded.status = "called"

AllDash(s, a, b) == \A i \in a .. b : s[i] = Dash
NoDash(s, a, b) == \A i \in a .. b : s[i] # Dash

\* s[a .. b] is dashes, then other characters, then dashes
IsDelimiter(s, a, b) ==
    \E i \in a .. b - 2 :
        /\ AllDash(s, a, i)
        /\ \E j \in i + 1 .. b - 1 : NoDash(s, i + 1, j) /\ AllDash(s, j + 1, b)

\* the positions where a header that starts the text may end: a dash
\* followed by another character
HeaderEnds(s) ==
    {h \in 3 .. Len(s) - 4 :
        s[1] = Dash /\ s[h] = Dash /\ s[h + 1] # Dash /\ IsDelimiter(s, 1, h)}

\* the positions where a body that starts after h may end: the character
\* before the next dash
BodyEnds(s, h) ==
    {b \in h + 1 .. Len(s) - 3 : s[b + 1] = Dash /\ NoDash(s, h + 1, b)}

\* the positions where a footer that starts after b may end: the last dash
\* of a run
FooterEnds(s, b) ==
    {f \in b + 3 .. Len(s) :
        s[f] = Dash /\ (f = Len(s) \/ s[f + 1] # Dash) /\ IsDelimiter(s, b + 1, f)}

\* the ways to read a prefix of s as header, body, footer: <<h, b, f>> are the
\* last positions of the three parts
ThreeParts(s) ==
    UNION {UNION {{<<h, b, f>> : f \in FooterEnds(s, b)} : b \in BodyEnds(s, h)} :
           h \in HeaderEnds(s)}

\* the body with every whitespace run made one line break, none in front and
\* one behind the last chunk
RECURSIVE CollapseFrom(_, _, _)
CollapseFrom(s, i, out) ==
    LET open == out # <<>> /\ out[Len(out)] # LF
    IN IF i > Len(s) THEN (IF open THEN Append(out, LF) ELSE out)
       ELSE IF s[i] \in UnicodeWhitespace
            THEN CollapseFrom(s, i + 1, IF open THEN Append(out, LF) ELSE out)
       ELSE CollapseFrom(s, i + 1, Append(out, s[i]))

Collapse(s) == CollapseFrom(s, 1, <<>>)

StripWhitespace(s) == SelectSeq(s, LAMBDA c : c \notin UnicodeWhitespace)

NoBlankLine(s) == \A i \in 1 .. Len(s) - 1 : ~ (s[i] = LF /\ s[i + 1] = LF)

\* what the loader is given for header, body, footer: the header, one line
\* break, the chunks each followed by one line break, the footer
Reassembled(header, body, footer, blob) ==
    LET middle == SubSeq(blob, Len(header) + 1, Len(blob) - Len(footer))
    IN /\ blob = Encode(header \o <<LF>> \o Collapse(body) \o footer)
       /\ SubSeq(blob, 1, Len(header)) = header
       /\ SubSeq(blob, Len(blob) - Len(footer) + 1, Len(blob)) = footer
       /\ blob[1] # LF /\ blob[Len(blob)] # LF
       /\ middle[1] = LF /\ middle[Len(middle)] = LF
       /\ NoBlankLine(middle)
       /\ \A i \in 1 .. Len(middle) : middle[i] \in UnicodeWhitespace => middle[i] = LF
       /\ SelectSeq(middle, LAMBDA c : c # LF) = Encode(StripWhitespace(body))

\* C5: two calls whose keys have the same header, the same footer and bodies
\* that differ only in the layout of the whitespace runs between the same
\* chunks hand the same PEM and the same passphrase to the loader.
C5_LayoutInsensitive == [][op' = "reformat" => loaded' = loaded]_vars

C5_Witness ==
    /\ op = "reformat"
    /\ private_key = Text(<<45, 65, 45, 65, 10, 65, 45, 65, 45>>)
    /\ loaded = Loader(<<45, 65, 45, 10, 65, 10, 65, 10, 45, 65, 45>>, NoKey)

\* a passphrase of text or bytes with nothing but whitespace in it
BlankStated(p) ==
    \/ p.t = "str" /\ \A i \in 1 .. Len(p.v) : p.v[i] \in UnicodeWhitespace
    \/ p.t = "bytes" /\ \A i \in 1 .. Len(p.v) : p.v[i] \in AsciiWhitespace

\* a passphrase of text or bytes with nothing but ASCII whitespace in it
BlankAscii(p) ==
    p.t \in {"str", "bytes"} /\ \A i \in 1 .. Len(p.v) : p.v[i] \in AsciiWhitespace

Encoded(p) == Bytes(IF p.t = "str" THEN Encode(p.v) ELSE p.v)

\* C6 as stated: the loader gets None exactly when the passphrase is None,
\* empty, whitespace only, or neither text nor bytes; otherwise its bytes.
\* A text of no-break spaces refutes it.
C6_PassphraseStated ==
    Called =>
        IF password.t \notin {"str", "bytes"} \/ BlankStated(password)
        THEN loaded.password = NoKey
        ELSE loaded.password = Encoded(password)

\* C6 as amended: the loader gets None exactly when the passphrase is None,
\* empty, made of ASCII whitespace only (space, tab, line feed, vertical tab,
\* form feed, carriage return), or neither text nor bytes; otherwise its
\* bytes, also for a text made of other Unicode whitespace.
C6_PassphraseAscii ==
    Called =>
        IF password.t \notin {"str", "bytes"} \/ BlankAscii(password)
        THEN loaded.password = NoKey
        ELSE loaded.password = Encoded(password) /\ loaded.password # NoKey

C6_Witness ==
    /\ Called
    /\ password = Text(<<32, 9>>)
    /\ loaded.password = NoKey

\* C7: a key text that does not read as header, body, footer raises: the
\* loader is not called and nothing is returned.
C7_NoMatchRaises ==
    op # "none" /\ private_key.t = "str" /\ ThreeParts(private_key.v) = {}
        => loaded = Raised

C7_Witness ==
    /\ op = "resolve"
    /\ private_key = Text(<<65, 65, 10, 65, 65>>)
    /\ loaded = Raised

\* C9 as stated: for a key text that reads as header, body, footer the loader
\* is given the header, the chunks of the body and the footer with one line
\* break between them, and the text given has no blank line.
\* A header with a blank line in it refutes it.
C9_ReassemblyStated ==
    op # "none" /\ private_key.t = "str" =>
        \A p \in ThreeParts(private_key.v) :
            /\ loaded.status = "called"
            /\ Reassembled(SubSeq(private_key.v, 1, p[1]),
                           SubSeq(private_key.v, p[1] + 1, p[2]),
                           SubSeq(private_key.v, p[2] + 1, p[3]),
                           loaded.data)
            /\ NoBlankLine(loaded.data)

\* C9 as amended: for a key text that reads as header, body, footer the
\* loader is given the header, the chunks of the body and the footer with one
\* line break between them; no part is empty, no chunk holds whitespace, the
\* chunks together are the body without its whitespace, nothing precedes the
\* header or follows the footer, and no blank line stands between the parts
\* (header and footer are copied as they are, whitespace included).
C9_Reassembly ==
    op # "none" /\ private_key.t = "str" =>
        \A p \in ThreeParts(private_key.v) :
            /\ loaded.status = "called"
            /\ Reassembled(SubSeq(private_key.v, 1, p[1]),
                           SubSeq(private_key.v, p[1] + 1, p[2]),
                           SubSeq(private_key.v, p[2] + 1, p[3]),
                           loaded.data)

C9_Witness ==
    /\ op = "resolve"
    /\ private_key = Text(<<45, 65, 45, 65, 32, 65, 45, 65, 45>>)
    /\ ThreeParts(private_key.v) = {<<3, 6, 9>>}
    /\ loaded.data = <<45, 65, 45, 10, 65, 10, 65, 10, 45, 65, 45>>

====
